---- MODULE Spec2Model ----
(***************************************************************************)
(* EV charging lifecycle: sessions, reservations and payments.             *)
(*                                                                         *)
(* The use cases of domain/use_cases (charge.py, reserve.py, pay.py) are   *)
(* linear sequences of Ledger reads followed by at most one Ledger write.  *)
(* Each request is a process whose pc is the await it is suspended at; the *)
(* Ledger (BlockchainPort) holds the canonical sessions, stations,         *)
(* reservations and users, and applies every write atomically.             *)
(*                                                                         *)
(* Units: time is counted in ticks, TicksPerHour ticks to the hour; money  *)
(* is counted in thousandths of an ETH (0.001 ETH = 1).                    *)
(***************************************************************************)
EXTENDS Integers, Sequences, FiniteSets, TLC

VARIABLES now, stations, sessions, reservations, users, procs, ent

vars == <<now, stations, sessions, reservations, users, procs, ent>>

ledger == <<stations, sessions, reservations, users>>

(***************************************************************************)
(* Bounds of the model.                                                    *)
(***************************************************************************)
MaxTime == 3
MaxSessions == 2
MaxReservations == 2
TicksPerHour == 2
MaxQuoteHours == 9

(***************************************************************************)
(* Program constants.                                                      *)
(***************************************************************************)
None == 0
NoAmount == 0 - 1
BaseRate == 1
MinReservationHours == 1
MaxReservationHours == 24

Procs == {"p1", "p2"}
Registered == {"W1", "W2"}
WellFormed == Registered \cup {"W3"}
Addresses == WellFormed \cup {"bad"}
StationIds == {1}

SessionStatus == {"PENDING", "ACTIVE", "COMPLETED", "PAID", "CANCELLED"}

(***************************************************************************)
(* Entities.                                                               *)
(***************************************************************************)
Session(id, user_address, station_id) ==
    [id |-> id, user_address |-> user_address, station_id |-> station_id,
     start_time |-> None, end_time |-> None, status |-> "PENDING",
     payment_amount |-> NoAmount, payment_time |-> None]

SessionStart(s, t) ==
    [s EXCEPT !.start_time = t, !.status = "ACTIVE"]

SessionEnd(s, t) ==
    [s EXCEPT !.end_time = t, !.status = "COMPLETED"]

\* (the variant records the amount without the time of the payment)
SessionPayUntimed(s, amount, t) ==
    [s EXCEPT !.payment_amount = amount, !.status = "PAID"]

SessionPay(s, amount, t) ==
    [s EXCEPT !.payment_amount = amount, !.payment_time = t, !.status = "PAID"]

SessionCancel(s) ==
    [s EXCEPT !.status = "CANCELLED"]

\* Session.get_duration, in ticks; None when the session has not ended.
GetDuration(s) ==
    IF s.start_time = None \/ s.end_time = None
    THEN None
    ELSE s.end_time - s.start_time

IsActive(s) == s.status = "ACTIVE"

IsPaid(s) == s.status = "PAID"

Station(id) ==
    [id |-> id, is_available |-> TRUE, current_session_id |-> None,
     total_sessions |-> 0, total_revenue |-> 0]

\* Station.start_session, and the variant that forgets to mark the station
\* as taken.
StationStartSessionKeepsAvailable(st, session_id) ==
    [st EXCEPT !.current_session_id = session_id]

StationStartSession(st, session_id) ==
    [st EXCEPT !.is_available = FALSE, !.current_session_id = session_id]

StationEndSessionBilled(st) ==
    [st EXCEPT !.is_available = TRUE, !.current_session_id = None,
               !.total_sessions = @ + 1, !.total_revenue = @ + BaseRate]

StationEndSession(st) ==
    [st EXCEPT !.is_available = TRUE, !.current_session_id = None,
               !.total_sessions = @ + 1]

\* Station.add_revenue, and the variant that drops the amount.
StationAddRevenueDropped(st, amount) == st

StationAddRevenue(st, amount) ==
    [st EXCEPT !.total_revenue = @ + amount]

User(balance) ==
    [total_charges |-> 0, total_sessions |-> 0, balance |-> balance]

UserAddCharge(u, amount) ==
    [u EXCEPT !.total_charges = @ + amount, !.total_sessions = @ + 1]

(***************************************************************************)
(* Payment amount: any started hour is billed in full.                     *)
(***************************************************************************)
CeilHours(ticks) == (ticks + TicksPerHour - 1) \div TicksPerHour

\* `if not session.duration: raise ValidationError`: None and a zero
\* duration are both falsy (the variant never raises).
CalculateRaisesNever(s) == FALSE

CalculateRaises(s) == GetDuration(s) = None \/ GetDuration(s) = 0

\* PaymentUseCase._calculate_payment_amount: quantize(1, ROUND_CEILING).
PayCalculatePaymentAmount(s) == BaseRate * CeilHours(GetDuration(s))

\* ChargeUseCase._calculate_payment_amount: int(hours) + 1 when hours % 1 != 0.
ChargeCalculatePaymentAmount(s) ==
    LET ticks == GetDuration(s)
        hours == IF ticks % TicksPerHour # 0
                 THEN (ticks \div TicksPerHour) + 1
                 ELSE ticks \div TicksPerHour
    IN  BaseRate * hours

\* The largest amount a request offers, and what every wallet holds at first.
MaxAmount == BaseRate * CeilHours(MaxTime)

InitBalance == MaxAmount + 1

(***************************************************************************)
(* Ledger reads (BlockchainPort).                                          *)
(***************************************************************************)
StationInputs == StationIds \cup {2}

SessionExists(session_id) == session_id \in 1..Len(sessions)

ReservationExists(reservation_id) == reservation_id \in 1..Len(reservations)

\* A non-cancelled reservation of the wallet on the station covers `now`.
IsStationReservedForUser(station_id, user_address) ==
    \E i \in 1..Len(reservations) :
        /\ reservations[i].station_id = station_id
        /\ reservations[i].user_address = user_address
        /\ ~reservations[i].cancelled
        /\ reservations[i].start_time <= now
        /\ now <= reservations[i].end_time

\* A non-cancelled reservation on the station overlaps [start_time, end_time).
IsStationReservedInPeriod(station_id, start_time, end_time) ==
    \E i \in 1..Len(reservations) :
        /\ reservations[i].station_id = station_id
        /\ ~reservations[i].cancelled
        /\ reservations[i].start_time < end_time
        /\ start_time < reservations[i].end_time

GetEthBalance(address) == users[address].balance

(***************************************************************************)
(* Ledger writes (BlockchainPort).  Each is one atomic transaction; the    *)
(* operators ...Conflict say when the Ledger rejects it.                   *)
(***************************************************************************)
\* start_session is refused while the station is in use; the variant is a
\* Ledger that never refuses.
LedgerStartSessionConflictNever(station_id) == FALSE

LedgerStartSessionConflict(station_id) == ~stations[station_id].is_available

LedgerStartSession(user_address, station_id) ==
    LET session_id == Len(sessions) + 1
    IN  /\ sessions' = Append(sessions,
                SessionStart(Session(session_id, user_address, station_id), now))
        /\ stations' = [stations EXCEPT
                ![station_id] = StationStartSession(@, session_id)]
        /\ UNCHANGED <<reservations, users>>

LedgerEndSessionConflict(session_id) == ~IsActive(sessions[session_id])

LedgerEndSession(session_id) ==
    /\ sessions' = [sessions EXCEPT ![session_id] = SessionEnd(@, now)]
    /\ stations' = [stations EXCEPT
            ![sessions[session_id].station_id] = StationEndSession(@)]
    /\ UNCHANGED <<reservations, users>>

\* pay_session is refused unless the session is COMPLETED; the variant is a
\* Ledger that never refuses.
LedgerPaySessionConflictNever(session_id) == FALSE

LedgerPaySessionConflict(session_id) == sessions[session_id].status # "COMPLETED"

\* The transaction carries `amount` as its value: it fails when the payer
\* cannot fund it.
LedgerPaySessionUnfunded(session_id, amount) ==
    users[sessions[session_id].user_address].balance < amount

LedgerPaySession(session_id, amount) ==
    LET s == sessions[session_id]
    IN  /\ sessions' = [sessions EXCEPT ![session_id] = SessionPay(@, amount, now)]
        /\ stations' = [stations EXCEPT
                ![s.station_id] = StationAddRevenue(@, amount)]
        /\ users' = [users EXCEPT
                ![s.user_address] =
                    [UserAddCharge(@, amount) EXCEPT !.balance = @ - amount]]
        /\ UNCHANGED reservations

\* reserve_station is refused when the station is already reserved in the
\* period; the variant is a Ledger that never refuses.
LedgerReserveStationConflictNever(station_id, start_time, end_time) == FALSE

LedgerReserveStationConflict(station_id, start_time, end_time) ==
    IsStationReservedInPeriod(station_id, start_time, end_time)

LedgerReserveStation(user_address, station_id, start_time, end_time) ==
    /\ reservations' = Append(reservations,
            [user_address |-> user_address, station_id |-> station_id,
             start_time |-> start_time, end_time |-> end_time,
             cancelled |-> FALSE])
    /\ UNCHANGED <<stations, sessions, users>>

LedgerCancelReservationConflict(reservation_id) ==
    reservations[reservation_id].cancelled

LedgerCancelReservation(reservation_id) ==
    /\ reservations' = [reservations EXCEPT ![reservation_id].cancelled = TRUE]
    /\ UNCHANGED <<stations, sessions, users>>

(***************************************************************************)
(* Requests.  A request is idle, or suspended at an await of its use case. *)
(***************************************************************************)
IdleProc ==
    [op |-> "none", pc |-> "idle", user_address |-> "bad", target |-> None,
     amount |-> 0, start_time |-> None, end_time |-> None, result |-> "none",
     figures |-> <<>>, view |-> <<>>, args |-> <<>>]

\* (the variant accepts every string as a wallet address)
ValidateWalletAddressAny(address) == TRUE

ValidateWalletAddress(address) == address \in WellFormed

\* The request p of use case op is over, with `result` returned or raised.
Return(p, op, result) ==
    procs' = [procs EXCEPT ![p] = [IdleProc EXCEPT !.op = op, !.result = result]]

Suspend(p, op, pc, user_address, target) ==
    procs' = [procs EXCEPT ![p] =
        [IdleProc EXCEPT !.op = op, !.pc = pc, !.user_address = user_address,
                         !.target = target]]

Goto(p, pc) ==
    procs' = [procs EXCEPT ![p].pc = pc]

(***************************************************************************)
(* The guards of the use cases: each says when its `raise` is taken.       *)
(***************************************************************************)
\* `if not station.is_available: raise StationInUseError`
\* (the variant is the use case without the guard)
StationInUseNever(station) == FALSE

StationInUse(station) == ~station.is_available

\* `if session.user_address != user_address: raise ValidationError`
\* (the variant is the use case without the guard)
NotOwnedNever(entity, user_address) == FALSE

NotOwned(entity, user_address) == entity.user_address # user_address

\* end_session: `if not session.is_active: raise SessionNotActiveError`
\* (the variant is the use case without the guard)
SessionNotActiveNever(session) == FALSE

SessionNotActive(session) == ~IsActive(session)

\* process_payment: `if session.is_active: raise SessionNotPaidError`
\* (the variant is the use case without the guard)
SessionStillActiveNever(session) == FALSE

SessionStillActive(session) == IsActive(session)

\* process_payment: `if session.is_paid: raise ValidationError`
\* (the variant is the use case without the guard)
SessionAlreadyPaidNever(session) == FALSE

SessionAlreadyPaid(session) == IsPaid(session)

\* process_payment: `if amount < required_amount: raise InsufficientPaymentError`
\* (the variant is the use case without the guard)
PaymentInsufficientNever(amount, required_amount) == FALSE

PaymentInsufficient(amount, required_amount) == amount < required_amount

\* process_payment: `if balance < amount: raise InsufficientPaymentError`
BalanceInsufficient(balance, amount) == balance < amount

(***************************************************************************)
(* ChargeUseCase.start_session                                             *)
(***************************************************************************)
StartSessionBegin(p, user_address, station_id) ==
    /\ procs[p].pc = "idle"
    /\ IF ~ValidateWalletAddress(user_address)
       THEN Return(p, "start_session", "ValidationError(VALIDATION_INVALID_WALLET_ADDRESS)")
       ELSE IF user_address \notin Registered
       THEN Return(p, "start_session", "UserNotFoundError")
       ELSE IF station_id \notin StationIds
       THEN Return(p, "start_session", "StationNotFoundError")
       ELSE IF StationInUse(stations[station_id])
       THEN Return(p, "start_session", "StationInUseError")
       ELSE Suspend(p, "start_session", "start_reserved", user_address, station_id)
    /\ UNCHANGED <<now, ledger, ent>>

\* (the variant is walk-up charging: the reservation is not asked for)
StartSessionReservedSkipped(p) ==
    /\ procs[p].pc = "start_reserved"
    /\ Goto(p, "start_write")
    /\ UNCHANGED <<now, ledger, ent>>

StartSessionReserved(p) ==
    /\ procs[p].pc = "start_reserved"
    /\ IF ~IsStationReservedForUser(procs[p].target, procs[p].user_address)
       THEN Return(p, "start_session", "StationNotReservedError")
       ELSE Goto(p, "start_write")
    /\ UNCHANGED <<now, ledger, ent>>

StartSessionWrite(p) ==
    /\ procs[p].pc = "start_write"
    /\ IF LedgerStartSessionConflict(procs[p].target)
       THEN /\ Return(p, "start_session", "ResourceConflictError")
            /\ UNCHANGED ledger
       ELSE /\ Len(sessions) < MaxSessions
            /\ LedgerStartSession(procs[p].user_address, procs[p].target)
            /\ Return(p, "start_session", "ok")
    /\ UNCHANGED <<now, ent>>

(***************************************************************************)
(* ChargeUseCase.end_session                                               *)
(***************************************************************************)
EndSessionBegin(p, user_address, session_id) ==
    /\ procs[p].pc = "idle"
    /\ IF ~ValidateWalletAddress(user_address)
       THEN Return(p, "end_session", "ValidationError(VALIDATION_INVALID_WALLET_ADDRESS)")
       ELSE IF user_address \notin Registered
       THEN Return(p, "end_session", "UserNotFoundError")
       ELSE IF ~SessionExists(session_id)
       THEN Return(p, "end_session", "SessionNotFoundError")
       ELSE IF NotOwned(sessions[session_id], user_address)
       THEN Return(p, "end_session", "ValidationError(SESSION_NOT_OWNED)")
       ELSE IF SessionNotActive(sessions[session_id])
       THEN Return(p, "end_session", "SessionNotActiveError")
       ELSE Suspend(p, "end_session", "end_write", user_address, session_id)
    /\ UNCHANGED <<now, ledger, ent>>

\* The Ledger write, the re-read of the session and the computation of the
\* required payment of the ended session.
EndSessionWrite(p) ==
    /\ procs[p].pc = "end_write"
    /\ IF LedgerEndSessionConflict(procs[p].target)
       THEN /\ Return(p, "end_session", "ResourceConflictError")
            /\ UNCHANGED ledger
       ELSE /\ LedgerEndSession(procs[p].target)
            /\ IF CalculateRaises(sessions'[procs[p].target])
               THEN Return(p, "end_session", "ValidationError(VALIDATION_ACTIVE_SESSION_PAYMENT)")
               ELSE procs' = [procs EXCEPT ![p] =
                        [IdleProc EXCEPT
                            !.op = "end_session", !.result = "ok",
                            !.amount = ChargeCalculatePaymentAmount(
                                           sessions'[procs[p].target])]]
    /\ UNCHANGED <<now, ent>>

(***************************************************************************)
(* PaymentUseCase.process_payment                                          *)
(***************************************************************************)
\* The decimals a payment is made with: the amounts up to MaxAmount and a
\* negative one (which differs from NoAmount, the absent amount).
PaymentAmounts == {NoAmount - 1} \cup 0..MaxAmount

\* amount_str: a string that parses to a decimal, or one that does not.
AmountStrings ==
    {[parses |-> TRUE, value |-> v] : v \in PaymentAmounts}
        \cup {[parses |-> FALSE, value |-> 0]}

ProcessPaymentBegin(p, user_address, session_id, amount_str) ==
    LET amount == amount_str.value
        session == sessions[session_id]
        required_amount == PayCalculatePaymentAmount(session)
    IN
    /\ procs[p].pc = "idle"
    /\ IF ~ValidateWalletAddress(user_address)
       THEN Return(p, "process_payment", "ValidationError(VALIDATION_INVALID_WALLET_ADDRESS)")
       ELSE IF ~amount_str.parses
       THEN Return(p, "process_payment", "ValidationError(VALIDATION_INVALID_AMOUNT)")
       ELSE IF user_address \notin Registered
       THEN Return(p, "process_payment", "UserNotFoundError")
       ELSE IF ~SessionExists(session_id)
       THEN Return(p, "process_payment", "SessionNotFoundError")
       ELSE IF NotOwned(session, user_address)
       THEN Return(p, "process_payment", "ValidationError(SESSION_NOT_OWNED)")
       ELSE IF SessionStillActive(session)
       THEN Return(p, "process_payment", "SessionNotPaidError")
       ELSE IF SessionAlreadyPaid(session)
       THEN Return(p, "process_payment", "ValidationError(SESSION_PAYMENT_ALREADY_PAID)")
       ELSE IF CalculateRaises(session)
       THEN Return(p, "process_payment", "ValidationError(VALIDATION_ACTIVE_SESSION_PAYMENT)")
       ELSE IF PaymentInsufficient(amount, required_amount)
       THEN procs' = [procs EXCEPT ![p] =
                [IdleProc EXCEPT !.op = "process_payment",
                                 !.result = "InsufficientPaymentError",
                                 !.figures = <<required_amount, amount>>]]
       ELSE procs' = [procs EXCEPT ![p] =
                [IdleProc EXCEPT !.op = "process_payment", !.pc = "pay_balance",
                                 !.user_address = user_address,
                                 !.target = session_id, !.amount = amount]]
    /\ UNCHANGED <<now, ledger, ent>>

ProcessPaymentBalance(p) ==
    LET balance == GetEthBalance(procs[p].user_address)
    IN
    /\ procs[p].pc = "pay_balance"
    /\ IF BalanceInsufficient(balance, procs[p].amount)
       THEN procs' = [procs EXCEPT ![p] =
                [IdleProc EXCEPT !.op = "process_payment",
                                 !.result = "InsufficientPaymentError",
                                 !.figures = <<procs[p].amount, balance>>]]
       ELSE Goto(p, "pay_write")
    /\ UNCHANGED <<now, ledger, ent>>

\* The Ledger write, the re-read of the session and user.add_charge on the
\* request's own copy of the user.
ProcessPaymentWrite(p) ==
    /\ procs[p].pc = "pay_write"
    /\ IF LedgerPaySessionConflict(procs[p].target)
       THEN /\ Return(p, "process_payment", "ResourceConflictError")
            /\ UNCHANGED ledger
       ELSE IF LedgerPaySessionUnfunded(procs[p].target, procs[p].amount)
       THEN /\ Return(p, "process_payment", "BlockchainError")
            /\ UNCHANGED ledger
       ELSE /\ LedgerPaySession(procs[p].target, procs[p].amount)
            /\ procs' = [procs EXCEPT ![p] =
                    [IdleProc EXCEPT !.op = "process_payment", !.result = "ok",
                                     !.target = procs[p].target,
                                     !.amount = procs[p].amount]]
    /\ UNCHANGED <<now, ent>>

(***************************************************************************)
(* ReserveUseCase.reserve_station                                          *)
(***************************************************************************)
\* start_time_str: an ISO timestamp, or a string that is none.
StartTimeStrings ==
    {[parses |-> TRUE, value |-> t] : t \in 1..MaxTime}
        \cup {[parses |-> FALSE, value |-> None]}

\* duration_hours_str: a number of hours (here in ticks), "nan", which
\* float() accepts and every comparison rejects, or a string that float()
\* rejects.
DurationStrings ==
    {[parses |-> TRUE, nan |-> FALSE, value |-> d] :
        d \in 1..(TicksPerHour + 1)
                \cup {MaxReservationHours * TicksPerHour,
                      MaxReservationHours * TicksPerHour + 1}}
        \cup {[parses |-> TRUE, nan |-> TRUE, value |-> 0],
              [parses |-> FALSE, nan |-> FALSE, value |-> 0]}

\* `if duration_hours < 1`: false for a NaN (the variant never finds a
\* duration too short).
DurationTooShortNever(duration_hours_str) == FALSE

DurationTooShort(duration_hours_str) ==
    /\ ~duration_hours_str.nan
    /\ duration_hours_str.value < MinReservationHours * TicksPerHour

\* `end_time = start_time + timedelta(hours=duration_hours)` is a ValueError
\* for a NaN duration.
ReserveStationBegin(p, user_address, station_id, start_time_str, duration_hours_str) ==
    LET start_time == start_time_str.value
        duration == duration_hours_str.value
    IN
    /\ procs[p].pc = "idle"
    /\ IF ~ValidateWalletAddress(user_address)
       THEN Return(p, "reserve_station", "ValidationError(VALIDATION_INVALID_WALLET_ADDRESS)")
       ELSE IF ~start_time_str.parses
       THEN Return(p, "reserve_station", "ValidationError(VALIDATION_INVALID_DATETIME)")
       ELSE IF ~duration_hours_str.parses
       THEN Return(p, "reserve_station", "ValidationError(VALIDATION_INVALID_DURATION)")
       ELSE IF DurationTooShort(duration_hours_str)
       THEN Return(p, "reserve_station", "ValidationError(STATION_RESERVATION_TOO_SHORT)")
       ELSE IF ~duration_hours_str.nan
                /\ duration > MaxReservationHours * TicksPerHour
       THEN Return(p, "reserve_station", "ValidationError(STATION_RESERVATION_TOO_LONG)")
       ELSE IF start_time < now
       THEN Return(p, "reserve_station", "ValidationError(VALIDATION_INVALID_START_TIME)")
       ELSE IF user_address \notin Registered
       THEN Return(p, "reserve_station", "UserNotFoundError")
       ELSE IF station_id \notin StationIds
       THEN Return(p, "reserve_station", "StationNotFoundError")
       ELSE IF StationInUse(stations[station_id])
       THEN Return(p, "reserve_station", "StationInUseError")
       ELSE IF duration_hours_str.nan
       THEN Return(p, "reserve_station", "ValueError")
       ELSE procs' = [procs EXCEPT ![p] =
                [IdleProc EXCEPT !.op = "reserve_station", !.pc = "reserve_check",
                                 !.user_address = user_address,
                                 !.target = station_id,
                                 !.start_time = start_time,
                                 !.end_time = start_time + duration]]
    /\ UNCHANGED <<now, ledger, ent>>

\* `raise StationAlreadyReservedError(station_id)`: the exception's
\* constructor takes (station_id, time), so the raise is a TypeError.
ReserveStationCheck(p) ==
    /\ procs[p].pc = "reserve_check"
    /\ IF IsStationReservedInPeriod(procs[p].target, procs[p].start_time,
                                    procs[p].end_time)
       THEN Return(p, "reserve_station", "TypeError")
       ELSE Goto(p, "reserve_write")
    /\ UNCHANGED <<now, ledger, ent>>

ReserveStationWrite(p) ==
    /\ procs[p].pc = "reserve_write"
    /\ IF LedgerReserveStationConflict(procs[p].target, procs[p].start_time,
                                       procs[p].end_time)
       THEN /\ Return(p, "reserve_station", "ResourceConflictError")
            /\ UNCHANGED ledger
       ELSE /\ Len(reservations) < MaxReservations
            /\ LedgerReserveStation(procs[p].user_address, procs[p].target,
                                    procs[p].start_time, procs[p].end_time)
            /\ Return(p, "reserve_station", "ok")
    /\ UNCHANGED <<now, ent>>

(***************************************************************************)
(* ReserveUseCase.cancel_reservation                                       *)
(***************************************************************************)
\* `raise ReservationExpiredError(reservation_id)`: its constructor passes
\* two arguments to ResourceConflictError.__init__(message): a TypeError.
CancelReservationBegin(p, user_address, reservation_id) ==
    /\ procs[p].pc = "idle"
    /\ IF ~ValidateWalletAddress(user_address)
       THEN Return(p, "cancel_reservation", "ValidationError(VALIDATION_INVALID_WALLET_ADDRESS)")
       ELSE IF user_address \notin Registered
       THEN Return(p, "cancel_reservation", "UserNotFoundError")
       ELSE IF ~ReservationExists(reservation_id)
       THEN Return(p, "cancel_reservation", "ReservationNotFoundError")
       ELSE IF NotOwned(reservations[reservation_id], user_address)
       THEN Return(p, "cancel_reservation", "ValidationError(RESERVATION_NOT_OWNED)")
       ELSE IF reservations[reservation_id].end_time < now
       THEN Return(p, "cancel_reservation", "TypeError")
       ELSE Suspend(p, "cancel_reservation", "cancel_write", user_address,
                    reservation_id)
    /\ UNCHANGED <<now, ledger, ent>>

CancelReservationWrite(p) ==
    /\ procs[p].pc = "cancel_write"
    /\ IF LedgerCancelReservationConflict(procs[p].target)
       THEN /\ Return(p, "cancel_reservation", "ResourceConflictError")
            /\ UNCHANGED ledger
       ELSE /\ LedgerCancelReservation(procs[p].target)
            /\ Return(p, "cancel_reservation", "ok")
    /\ UNCHANGED <<now, ent>>

(***************************************************************************)
(* Ledger-layer errors.  No use case catches BlockchainError: a Ledger     *)
(* call that raises it ends the invocation with that error.                *)
(***************************************************************************)
MutatingOperations ==
    {"start_session", "end_session", "reserve_station", "cancel_reservation",
     "process_payment"}

\* The awaits of a Ledger read, and those of the one Ledger write.
ReadAwaits == {"start_reserved", "pay_balance", "reserve_check"}

WriteAwaits ==
    {"start_write", "end_write", "pay_write", "reserve_write", "cancel_write"}

\* The first Ledger call of an invocation (get_user) fails.
LedgerFirstCallFails(p, op) ==
    /\ procs[p].pc = "idle"
    /\ Return(p, op, "BlockchainError")
    /\ UNCHANGED <<now, ledger, ent>>

\* The Ledger call the invocation is waiting for fails, nothing applied.
LedgerCallFails(p) ==
    /\ procs[p].pc \in ReadAwaits \cup WriteAwaits
    /\ Return(p, procs[p].op, "BlockchainError")
    /\ UNCHANGED <<now, ledger, ent>>

\* The write the invocation is waiting for, applied by the Ledger.
LedgerWriteApplied(p) ==
    CASE procs[p].pc = "start_write" ->
            /\ ~LedgerStartSessionConflict(procs[p].target)
            /\ Len(sessions) < MaxSessions
            /\ LedgerStartSession(procs[p].user_address, procs[p].target)
      [] procs[p].pc = "end_write" ->
            /\ ~LedgerEndSessionConflict(procs[p].target)
            /\ LedgerEndSession(procs[p].target)
      [] procs[p].pc = "pay_write" ->
            /\ ~LedgerPaySessionConflict(procs[p].target)
            /\ ~LedgerPaySessionUnfunded(procs[p].target, procs[p].amount)
            /\ LedgerPaySession(procs[p].target, procs[p].amount)
      [] procs[p].pc = "reserve_write" ->
            /\ ~LedgerReserveStationConflict(procs[p].target,
                    procs[p].start_time, procs[p].end_time)
            /\ Len(reservations) < MaxReservations
            /\ LedgerReserveStation(procs[p].user_address, procs[p].target,
                                    procs[p].start_time, procs[p].end_time)
      [] procs[p].pc = "cancel_write" ->
            /\ ~LedgerCancelReservationConflict(procs[p].target)
            /\ LedgerCancelReservation(procs[p].target)

\* (the variant is an orchestrator that swallows the error and issues the
\* write again)
LedgerFailsAfterWriteRetried(p) ==
    /\ procs[p].pc \in WriteAwaits
    /\ LedgerWriteApplied(p)
    /\ UNCHANGED <<procs, now, ent>>

\* The Ledger applies the write, and then the write's reply, or the read of
\* the updated record that follows it, fails.
LedgerFailsAfterWrite(p) ==
    /\ procs[p].pc \in WriteAwaits
    /\ LedgerWriteApplied(p)
    /\ Return(p, procs[p].op, "BlockchainError")
    /\ UNCHANGED <<now, ent>>

(***************************************************************************)
(* ReserveUseCase.get_reservation_details, get_user_reservations           *)
(***************************************************************************)
\* A read that ends with the dictionaries it returns.
ReturnView(p, op, user_address, target, view) ==
    procs' = [procs EXCEPT ![p] =
        [IdleProc EXCEPT !.op = op, !.result = "ok",
                         !.user_address = user_address, !.target = target,
                         !.view = view]]

\* (the variant takes a reservation for expired at the instant it ends)
ReservationStatusEndExclusive(reservation, current_time) ==
    IF reservation.cancelled THEN "cancelled"
    ELSE IF current_time >= reservation.end_time THEN "expired"
    ELSE IF current_time >= reservation.start_time THEN "active"
    ELSE "pending"

\* The status derived at read time from the clock, the period and the flag.
ReservationStatus(reservation, current_time) ==
    IF reservation.cancelled THEN "cancelled"
    ELSE IF current_time > reservation.end_time THEN "expired"
    ELSE IF current_time >= reservation.start_time THEN "active"
    ELSE "pending"

GetReservationDetails(p, user_address, reservation_id) ==
    /\ procs[p].pc = "idle"
    /\ IF ~ValidateWalletAddress(user_address)
       THEN Return(p, "get_reservation_details", "ValidationError(VALIDATION_INVALID_WALLET_ADDRESS)")
       ELSE IF user_address \notin Registered
       THEN Return(p, "get_reservation_details", "UserNotFoundError")
       ELSE IF ~ReservationExists(reservation_id)
       THEN Return(p, "get_reservation_details", "ReservationNotFoundError")
       ELSE IF NotOwned(reservations[reservation_id], user_address)
       THEN Return(p, "get_reservation_details", "ValidationError(RESERVATION_NOT_OWNED)")
       ELSE ReturnView(p, "get_reservation_details", user_address, reservation_id,
                <<[reservation_id |-> reservation_id,
                   status |-> ReservationStatus(reservations[reservation_id], now)]>>)
    /\ UNCHANGED <<now, ledger, ent>>

\* The status argument: "" for no filter, the four statuses, and one that
\* is none of them.
StatusFilters == {"", "active", "pending", "expired", "cancelled", "other"}

\* BlockchainPort.get_user_reservations: the ids of the wallet's
\* reservations, in the order they were made.
LedgerGetUserReservations(user_address) ==
    SelectSeq([i \in 1..Len(reservations) |-> i],
              LAMBDA i : reservations[i].user_address = user_address)

\* The if/elif chain of the filter loop: each branch tests one condition of
\* the derivation together with the requested status, and a reservation for
\* which a branch fails falls through to the next one.
FilterKeeps(reservation, current_time, status) ==
    \/ reservation.cancelled /\ status = "cancelled"
    \/ current_time > reservation.end_time /\ status = "expired"
    \/ current_time >= reservation.start_time /\ status = "active"
    \/ current_time < reservation.start_time /\ status = "pending"

\* Without a filter current_time is never assigned: the status expression
\* of the returned list raises NameError at the first reservation that is
\* not cancelled.
GetUserReservations(p, user_address, status) ==
    LET all == LedgerGetUserReservations(user_address)
        kept == SelectSeq(all,
                    LAMBDA i : FilterKeeps(reservations[i], now, status))
    IN
    /\ procs[p].pc = "idle"
    /\ IF ~ValidateWalletAddress(user_address)
       THEN Return(p, "get_user_reservations", "ValidationError(VALIDATION_INVALID_WALLET_ADDRESS)")
       ELSE IF status # "" /\ status \notin {"active", "pending", "expired", "cancelled"}
       THEN Return(p, "get_user_reservations", "ValidationError(VALIDATION_INVALID_STATUS)")
       ELSE IF user_address \notin Registered
       THEN Return(p, "get_user_reservations", "UserNotFoundError")
       ELSE IF status = ""
       THEN IF \E k \in 1..Len(all) : ~reservations[all[k]].cancelled
            THEN procs' = [procs EXCEPT ![p] =
                    [IdleProc EXCEPT !.op = "get_user_reservations",
                                     !.result = "NameError",
                                     !.user_address = user_address]]
            ELSE ReturnView(p, "get_user_reservations", user_address, None,
                    [k \in 1..Len(all) |->
                        [reservation_id |-> all[k], status |-> "cancelled"]])
       ELSE ReturnView(p, "get_user_reservations", user_address, None,
                [k \in 1..Len(kept) |->
                    [reservation_id |-> kept[k],
                     status |-> ReservationStatus(reservations[kept[k]], now)]])
    /\ UNCHANGED <<now, ledger, ent>>

(***************************************************************************)
(* ChargeUseCase.get_session_details, get_user_sessions;                   *)
(* PaymentUseCase.get_payment_details                                      *)
(***************************************************************************)
\* "active" if is_active else "ended" if end_time else "paid" if is_paid
\* else "unknown".
SessionStatusView(session) ==
    IF IsActive(session) THEN "active"
    ELSE IF session.end_time # None THEN "ended"
    ELSE IF IsPaid(session) THEN "paid"
    ELSE "unknown"

GetSessionDetails(p, user_address, session_id) ==
    /\ procs[p].pc = "idle"
    /\ IF ~ValidateWalletAddress(user_address)
       THEN Return(p, "get_session_details", "ValidationError(VALIDATION_INVALID_WALLET_ADDRESS)")
       ELSE IF user_address \notin Registered
       THEN Return(p, "get_session_details", "UserNotFoundError")
       ELSE IF ~SessionExists(session_id)
       THEN Return(p, "get_session_details", "SessionNotFoundError")
       ELSE IF NotOwned(sessions[session_id], user_address)
       THEN Return(p, "get_session_details", "ValidationError(SESSION_NOT_OWNED)")
       ELSE IF /\ ~IsActive(sessions[session_id])
               /\ ~IsPaid(sessions[session_id])
               /\ CalculateRaises(sessions[session_id])
       THEN Return(p, "get_session_details", "ValidationError(VALIDATION_ACTIVE_SESSION_PAYMENT)")
       ELSE ReturnView(p, "get_session_details", user_address, session_id,
                <<[session_id |-> session_id,
                   status |-> SessionStatusView(sessions[session_id])]>>)
    /\ UNCHANGED <<now, ledger, ent>>

\* "paid" if is_paid else "pending" if not is_active else "active".
PaymentStatusView(session) ==
    IF IsPaid(session) THEN "paid"
    ELSE IF ~IsActive(session) THEN "pending"
    ELSE "active"

\* (the variant counts the lookup on the caller's account)
GetPaymentDetailsCounted(p, user_address, session_id) ==
    /\ procs[p].pc = "idle"
    /\ user_address \in Registered
    /\ users' = [users EXCEPT ![user_address].total_sessions = @ + 1]
    /\ ReturnView(p, "get_payment_details", user_address, session_id, <<>>)
    /\ UNCHANGED <<now, stations, sessions, reservations, ent>>

GetPaymentDetails(p, user_address, session_id) ==
    /\ procs[p].pc = "idle"
    /\ IF ~ValidateWalletAddress(user_address)
       THEN Return(p, "get_payment_details", "ValidationError(VALIDATION_INVALID_WALLET_ADDRESS)")
       ELSE IF user_address \notin Registered
       THEN Return(p, "get_payment_details", "UserNotFoundError")
       ELSE IF ~SessionExists(session_id)
       THEN Return(p, "get_payment_details", "SessionNotFoundError")
       ELSE IF NotOwned(sessions[session_id], user_address)
       THEN Return(p, "get_payment_details", "ValidationError(SESSION_NOT_OWNED)")
       ELSE IF /\ ~IsActive(sessions[session_id])
               /\ ~IsPaid(sessions[session_id])
               /\ CalculateRaises(sessions[session_id])
       THEN Return(p, "get_payment_details", "ValidationError(VALIDATION_ACTIVE_SESSION_PAYMENT)")
       ELSE ReturnView(p, "get_payment_details", user_address, session_id,
                <<[session_id |-> session_id,
                   status |-> PaymentStatusView(sessions[session_id]),
                   user_balance |-> GetEthBalance(user_address)]>>)
    /\ UNCHANGED <<now, ledger, ent>>

\* user.active_sessions as the Ledger keeps it: the ids of the wallet's
\* ACTIVE sessions.
LedgerActiveSessions(user_address) ==
    SelectSeq([i \in 1..Len(sessions) |-> i],
              LAMBDA i : /\ sessions[i].user_address = user_address
                         /\ IsActive(sessions[i]))

\* (the variant lists the sessions of the range whoever owns them)
UserSessionsListedAnyOwner(ids, missing, user_address) ==
    SelectSeq(ids, LAMBDA i : SessionExists(i) /\ i \notin missing)

\* The loop over the ids: an id the Ledger does not resolve is skipped
\* (`except SessionNotFoundError: continue`), a session of another wallet is
\* left out.
UserSessionsListed(ids, missing, user_address) ==
    SelectSeq(ids, LAMBDA i : /\ SessionExists(i)
                              /\ i \notin missing
                              /\ sessions[i].user_address = user_address)

\* `missing`: the ids for which the Ledger answers "not found" although
\* they lie in the range the listing iterates (sparse Ledger records).
GetUserSessions(p, user_address, active_only, missing) ==
    LET ids == IF active_only
               THEN LedgerActiveSessions(user_address)
               ELSE [i \in 1..users[user_address].total_sessions |-> i]
        listed == UserSessionsListed(ids, missing, user_address)
    IN
    /\ procs[p].pc = "idle"
    /\ IF ~ValidateWalletAddress(user_address)
       THEN Return(p, "get_user_sessions", "ValidationError(VALIDATION_INVALID_WALLET_ADDRESS)")
       ELSE IF user_address \notin Registered
       THEN Return(p, "get_user_sessions", "UserNotFoundError")
       ELSE procs' = [procs EXCEPT ![p] =
                [IdleProc EXCEPT
                    !.op = "get_user_sessions", !.result = "ok",
                    !.user_address = user_address,
                    !.args = <<active_only, missing>>,
                    !.view = [k \in 1..Len(listed) |->
                        [session_id |-> listed[k],
                         user_address |-> sessions[listed[k]].user_address]]]]
    /\ UNCHANGED <<now, ledger, ent>>

(***************************************************************************)
(* The clock, and the Session entity called directly.                      *)
(***************************************************************************)
Tick ==
    /\ now < MaxTime
    /\ now' = now + 1
    /\ UNCHANGED <<ledger, procs, ent>>

EntStart ==
    /\ ent' = SessionStart(ent, now)
    /\ UNCHANGED <<now, ledger, procs>>

EntEnd ==
    /\ ent' = SessionEnd(ent, now)
    /\ UNCHANGED <<now, ledger, procs>>

EntPay(amount) ==
    /\ ent' = SessionPay(ent, amount, now)
    /\ UNCHANGED <<now, ledger, procs>>

EntCancel ==
    /\ ent' = SessionCancel(ent)
    /\ UNCHANGED <<now, ledger, procs>>

\* PaymentUseCase._calculate_payment_amount applied to the session.
EntPayAmount ==
    /\ IF CalculateRaises(ent)
       THEN Return("p1", "pay_amount",
                   "ValidationError(VALIDATION_ACTIVE_SESSION_PAYMENT)")
       ELSE procs' = [procs EXCEPT !["p1"] =
                [IdleProc EXCEPT !.op = "pay_amount", !.result = "ok",
                                 !.amount = PayCalculatePaymentAmount(ent)]]
    /\ UNCHANGED <<now, ledger, ent>>

\* ChargeUseCase._calculate_payment_amount applied to the session.
EntChargeAmount ==
    /\ IF CalculateRaises(ent)
       THEN Return("p1", "charge_amount",
                   "ValidationError(VALIDATION_ACTIVE_SESSION_PAYMENT)")
       ELSE procs' = [procs EXCEPT !["p1"] =
                [IdleProc EXCEPT !.op = "charge_amount", !.result = "ok",
                                 !.amount = ChargeCalculatePaymentAmount(ent)]]
    /\ UNCHANGED <<now, ledger, ent>>

(***************************************************************************)
(* The two amounts as the caller sees them.  An amount is a pair           *)
(* <<thousandths of an ETH, units of 1e-18 ETH above them>>.               *)
(***************************************************************************)
\* `base_rate * hours` with base_rate = 0.001, a binary float: what str()
\* prints of the product exceeds the decimal product by this many units of
\* 1e-18 (0.001 * 9 is 0.009000000000000001); for hours below 26.
FloatProductExcess(hours) ==
    IF hours \in {9, 13} THEN 1 ELSE IF hours = 18 THEN 2 ELSE 0

\* required_payment of end_session: str(base_rate * hours), read back by
\* parse_decimal.
ChargeRequiredPayment(s) ==
    <<ChargeCalculatePaymentAmount(s),
      FloatProductExcess(ChargeCalculatePaymentAmount(s) \div BaseRate)>>

\* required_amount of process_payment: Decimal('0.001') * hours, exact.
PayRequiredAmount(s) == <<PayCalculatePaymentAmount(s), 0>>

\* `amount < required_amount` on two such amounts.
AmountLess(amount, required_amount) ==
    \/ amount[1] < required_amount[1]
    \/ amount[1] = required_amount[1] /\ amount[2] < required_amount[2]

\* ChargeUseCase._calculate_payment_amount applied to the ended session.
QuoteCharge ==
    /\ procs["p1"].op = "none"
    /\ IF CalculateRaises(ent)
       THEN Return("p1", "charge_amount",
                   "ValidationError(VALIDATION_ACTIVE_SESSION_PAYMENT)")
       ELSE procs' = [procs EXCEPT !["p1"] =
                [IdleProc EXCEPT !.op = "charge_amount", !.result = "ok",
                                 !.figures = ChargeRequiredPayment(ent)]]
    /\ UNCHANGED <<now, ledger, ent>>

\* PaymentUseCase._calculate_payment_amount applied to the ended session.
QuotePay ==
    /\ procs["p2"].op = "none"
    /\ IF CalculateRaises(ent)
       THEN Return("p2", "pay_amount",
                   "ValidationError(VALIDATION_ACTIVE_SESSION_PAYMENT)")
       ELSE procs' = [procs EXCEPT !["p2"] =
                [IdleProc EXCEPT !.op = "pay_amount", !.result = "ok",
                                 !.figures = PayRequiredAmount(ent)]]
    /\ UNCHANGED <<now, ledger, ent>>

(***************************************************************************)
(* The Station and User entities called directly; `ent` holds the pair.    *)
(***************************************************************************)
\* A Station with its reservation calendar (the lists of all date keys, in
\* the order of the appends).
StationEntity(id) ==
    [id |-> id, is_available |-> TRUE, current_session_id |-> None,
     total_sessions |-> 0, total_revenue |-> 0, reservations |-> <<>>]

StationAddReservation(st, user_address, start_time, end_time) ==
    [st EXCEPT !.reservations =
        Append(@, [user_address |-> user_address, start_time |-> start_time,
                   end_time |-> end_time])]

StationRemoveReservation(st, user_address, start_time, end_time) ==
    [st EXCEPT !.reservations =
        SelectSeq(@, LAMBDA r : ~(/\ r.user_address = user_address
                                  /\ r.start_time = start_time
                                  /\ r.end_time = end_time))]

\* The periods a reservation is added or removed with.
Periods ==
    {<<s, e>> \in (1..MaxTime) \X (2..(MaxTime + 1)) : s < e}

EntAddReservation(user_address, start_time, end_time) ==
    /\ Len(ent.station.reservations) < MaxReservations
    /\ ent' = [ent EXCEPT !.station =
                StationAddReservation(@, user_address, start_time, end_time)]
    /\ UNCHANGED <<now, ledger, procs>>

EntRemoveReservation(user_address, start_time, end_time) ==
    /\ ent' = [ent EXCEPT !.station =
                StationRemoveReservation(@, user_address, start_time, end_time)]
    /\ UNCHANGED <<now, ledger, procs>>

EntStationStartSession(session_id) ==
    /\ ent' = [ent EXCEPT !.station = StationStartSession(@, session_id)]
    /\ UNCHANGED <<now, ledger, procs>>

EntStationEndSession ==
    /\ ent.station.total_sessions < MaxSessions
    /\ ent' = [ent EXCEPT !.station = StationEndSession(@)]
    /\ UNCHANGED <<now, ledger, procs>>

EntAddRevenue(amount) ==
    /\ ent.station.total_revenue \in (0 - MaxAmount)..MaxAmount
    /\ ent' = [ent EXCEPT !.station = StationAddRevenue(@, amount)]
    /\ UNCHANGED <<now, ledger, procs>>

EntAddCharge(amount) ==
    /\ ent.user.total_charges \in (0 - MaxAmount)..MaxAmount
    /\ ent.user.total_sessions < MaxSessions
    /\ ent' = [ent EXCEPT !.user = UserAddCharge(@, amount)]
    /\ UNCHANGED <<now, ledger, procs>>

(***************************************************************************)
(* The Station entity's lookups.  The calendar is keyed by the date of a   *)
(* reservation's start; the times of the model straddle one midnight, at   *)
(* tick MaxTime.                                                           *)
(***************************************************************************)
\* time.strftime("%Y-%m-%d")
DateKey(time) == IF time < MaxTime THEN 1 ELSE 2

\* self.reservations[date_key]: the reservations stored under the key.
ReservationsOfDate(st, date_key) ==
    SelectSeq(st.reservations, LAMBDA r : DateKey(r.start_time) = date_key)

StationIsReservedAt(st, time) ==
    \E k \in 1..Len(ReservationsOfDate(st, DateKey(time))) :
        LET r == ReservationsOfDate(st, DateKey(time))[k]
        IN  r.start_time <= time /\ time <= r.end_time

\* The holder of the first reservation under the key that covers the time,
\* "None" when there is none.
StationGetReservationUser(st, time) ==
    LET list == ReservationsOfDate(st, DateKey(time))
        covering == {k \in 1..Len(list) :
                        list[k].start_time <= time /\ time <= list[k].end_time}
    IN  IF covering = {}
        THEN "None"
        ELSE list[CHOOSE k \in covering : \A l \in covering : k <= l].user_address

EntIsReservedAt(time) ==
    /\ procs' = [procs EXCEPT !["p1"] =
            [IdleProc EXCEPT
                !.op = "is_reserved_at", !.args = <<time>>,
                !.result = IF StationIsReservedAt(ent.station, time)
                           THEN "True" ELSE "False"]]
    /\ UNCHANGED <<now, ledger, ent>>

EntGetReservationUser(time) ==
    /\ procs' = [procs EXCEPT !["p1"] =
            [IdleProc EXCEPT
                !.op = "get_reservation_user", !.args = <<time>>,
                !.result = StationGetReservationUser(ent.station, time)]]
    /\ UNCHANGED <<now, ledger, ent>>

(***************************************************************************)
(* The User entity's lists of active sessions and reservations; `ent`      *)
(* holds the user, the last call and the exception it raised.              *)
(***************************************************************************)
UserEntity ==
    [active_sessions |-> <<>>, active_reservations |-> <<>>,
     total_charges |-> 0, total_sessions |-> 0]

Range(list) == {list[k] : k \in 1..Len(list)}

\* list.remove(x): the list without the first occurrence of x.
ListRemove(list, x) ==
    LET first == CHOOSE k \in 1..Len(list) :
                    list[k] = x /\ \A j \in 1..(k - 1) : list[j] # x
    IN  [k \in 1..(Len(list) - 1) |-> IF k < first THEN list[k] ELSE list[k + 1]]

UserAddSession(u, session_id) ==
    IF session_id \notin Range(u.active_sessions)
    THEN [u EXCEPT !.active_sessions = Append(@, session_id)]
    ELSE u

UserRemoveSession(u, session_id) ==
    IF session_id \in Range(u.active_sessions)
    THEN [u EXCEPT !.active_sessions = ListRemove(@, session_id)]
    ELSE u

UserAddReservation(u, reservation_id) ==
    IF reservation_id \notin Range(u.active_reservations)
    THEN [u EXCEPT !.active_reservations = Append(@, reservation_id)]
    ELSE u

UserRemoveReservation(u, reservation_id) ==
    IF reservation_id \in Range(u.active_reservations)
    THEN [u EXCEPT !.active_reservations = ListRemove(@, reservation_id)]
    ELSE u

\* The ids the lists are called with.
SessionIdInputs == 1..(MaxSessions + 1)

ReservationIdInputs == 1..(MaxReservations + 1)

\* None of the four methods has a raise statement.
EntAddSession(session_id) ==
    /\ ent' = [user |-> UserAddSession(ent.user, session_id), raised |-> "none",
               call |-> <<"add_session", session_id>>]
    /\ UNCHANGED <<now, ledger, procs>>

EntRemoveSession(session_id) ==
    /\ ent' = [user |-> UserRemoveSession(ent.user, session_id), raised |-> "none",
               call |-> <<"remove_session", session_id>>]
    /\ UNCHANGED <<now, ledger, procs>>

EntUserAddReservation(reservation_id) ==
    /\ ent' = [user |-> UserAddReservation(ent.user, reservation_id), raised |-> "none",
               call |-> <<"add_reservation", reservation_id>>]
    /\ UNCHANGED <<now, ledger, procs>>

EntUserRemoveReservation(reservation_id) ==
    /\ ent' = [user |-> UserRemoveReservation(ent.user, reservation_id), raised |-> "none",
               call |-> <<"remove_reservation", reservation_id>>]
    /\ UNCHANGED <<now, ledger, procs>>

(***************************************************************************)
(* Specifications.                                                         *)
(***************************************************************************)
Reservation(user_address, station_id, start_time, end_time) ==
    [user_address |-> user_address, station_id |-> station_id,
     start_time |-> start_time, end_time |-> end_time, cancelled |-> FALSE]

\* The calendar the session specifications start from: W1 holds station 1
\* for the first hour, W2 from then on.
Calendar ==
    <<Reservation("W1", 1, 1, TicksPerHour),
      Reservation("W2", 1, TicksPerHour, MaxTime + 1)>>

InitReserve ==
    /\ now = 1
    /\ stations = [id \in StationIds |-> Station(id)]
    /\ sessions = <<>>
    /\ reservations = <<>>
    /\ users = [w \in Registered |-> User(InitBalance)]
    /\ procs = [p \in Procs |-> IdleProc]
    /\ ent = Session(1, "W1", 1)

Init ==
    /\ now = 1
    /\ stations = [id \in StationIds |-> Station(id)]
    /\ sessions = <<>>
    /\ reservations = Calendar
    /\ users = [w \in Registered |-> User(InitBalance)]
    /\ procs = [p \in Procs |-> IdleProc]
    /\ ent = Session(1, "W1", 1)

StartSession(P, A) ==
    \/ \E p \in P, a \in A, s \in StationInputs : StartSessionBegin(p, a, s)
    \/ \E p \in P : StartSessionReserved(p)
    \/ \E p \in P : StartSessionWrite(p)

EndSession(P, A) ==
    \/ \E p \in P, a \in A, i \in 1..MaxSessions : EndSessionBegin(p, a, i)
    \/ \E p \in P : EndSessionWrite(p)

ProcessPayment(P, A) ==
    \/ \E p \in P, a \in A, i \in 1..MaxSessions, m \in AmountStrings :
            ProcessPaymentBegin(p, a, i, m)
    \/ \E p \in P : ProcessPaymentBalance(p)
    \/ \E p \in P : ProcessPaymentWrite(p)

ReserveStation(P, A) ==
    \/ \E p \in P, a \in A, s \in StationInputs,
          t \in StartTimeStrings, d \in DurationStrings :
            ReserveStationBegin(p, a, s, t, d)
    \/ \E p \in P : ReserveStationCheck(p)
    \/ \E p \in P : ReserveStationWrite(p)

CancelReservation(P, A) ==
    \/ \E p \in P, a \in A, i \in 1..MaxReservations :
            CancelReservationBegin(p, a, i)
    \/ \E p \in P : CancelReservationWrite(p)

\* The session and payment use cases, one request at a time.
Next ==
    \/ Tick
    \/ StartSession({"p1"}, Addresses)
    \/ EndSession({"p1"}, Addresses)
    \/ ProcessPayment({"p1"}, Addresses)

Spec == Init /\ [][Next]_vars

\* The reservation use cases, one request at a time.
NextReserve ==
    \/ Tick
    \/ ReserveStation({"p1"}, Addresses)
    \/ CancelReservation({"p1"}, Addresses)

SpecReserve == InitReserve /\ [][NextReserve]_vars

\* Two interleaved requests that start and end sessions.
NextStartRace ==
    \/ Tick
    \/ StartSession(Procs, Registered)
    \/ EndSession(Procs, Registered)

SpecStartRace == Init /\ [][NextStartRace]_vars

\* W1 runs its sessions through request p1; two interleaved requests pay.
NextPayRace ==
    \/ Tick
    \/ StartSession({"p1"}, {"W1"})
    \/ EndSession({"p1"}, {"W1"})
    \/ ProcessPayment(Procs, {"W1"})

SpecPayRace == Init /\ [][NextPayRace]_vars

\* The Session entity, called directly.
NextEntity ==
    \/ Tick
    \/ EntStart
    \/ EntEnd
    \/ \E m \in PaymentAmounts : EntPay(m)
    \/ EntCancel

SpecEntity == Init /\ [][NextEntity]_vars

\* The sessions of one wallet, and payments attempted by every caller.
NextPayOrder ==
    \/ Tick
    \/ StartSession({"p1"}, {"W1"})
    \/ EndSession({"p1"}, {"W1"})
    \/ ProcessPayment({"p1"}, Addresses)

SpecPayOrder == Init /\ [][NextPayOrder]_vars

\* The reservations of the calendar, cancelled by their holders and read by
\* every caller as the clock advances.
NextReservationViews ==
    \/ Tick
    \/ CancelReservation({"p1"}, Registered)
    \/ \E a \in Addresses, i \in 1..MaxReservations :
            GetReservationDetails("p1", a, i)
    \/ \E a \in Addresses, s \in StatusFilters :
            GetUserReservations("p1", a, s)

SpecReservationViews == Init /\ [][NextReservationViews]_vars

\* The sessions of the registered wallets, started, ended and paid one
\* request at a time, and read by every caller.
NextSessionViews ==
    \/ Tick
    \/ StartSession({"p1"}, Registered)
    \/ EndSession({"p1"}, Registered)
    \/ ProcessPayment({"p1"}, Registered)
    \/ \E a \in Addresses, i \in 1..MaxSessions : GetSessionDetails("p1", a, i)
    \/ \E a \in Addresses, i \in 1..MaxSessions : GetPaymentDetails("p1", a, i)
    \/ \E a \in Addresses, active_only \in BOOLEAN,
          missing \in SUBSET (1..MaxSessions) :
            GetUserSessions("p1", a, active_only, missing)

SpecSessionViews == Init /\ [][NextSessionViews]_vars

\* The sessions of the registered wallets, and the listing of a wallet's
\* sessions.
NextUserSessions ==
    \/ Tick
    \/ StartSession({"p1"}, Registered)
    \/ EndSession({"p1"}, Registered)
    \/ ProcessPayment({"p1"}, Registered)
    \/ \E a \in Addresses, active_only \in BOOLEAN,
          missing \in SUBSET (1..MaxSessions) :
            GetUserSessions("p1", a, active_only, missing)

SpecUserSessions == Init /\ [][NextUserSessions]_vars

\* One wallet's sessions, payments and cancellation, and the five read
\* operations called by every caller in between.
NextReads ==
    \/ Tick
    \/ StartSession({"p1"}, {"W1"})
    \/ EndSession({"p1"}, {"W1"})
    \/ ProcessPayment({"p1"}, {"W1"})
    \/ CancelReservation({"p1"}, {"W1"})
    \/ \E a \in Addresses, i \in 1..MaxSessions : GetSessionDetails("p1", a, i)
    \/ \E a \in Addresses, i \in 1..MaxSessions : GetPaymentDetails("p1", a, i)
    \/ \E a \in Addresses, active_only \in BOOLEAN,
          missing \in {{}, 1..MaxSessions} :
            GetUserSessions("p1", a, active_only, missing)
    \/ \E a \in Addresses, i \in 1..MaxReservations :
            GetReservationDetails("p1", a, i)
    \/ \E a \in Addresses, s \in StatusFilters :
            GetUserReservations("p1", a, s)

SpecReads == Init /\ [][NextReads]_vars

\* One wallet reserves the station from the first instant for the longest
\* period allowed, starts, ends, pays the largest amount and cancels, one
\* request at a time, over a Ledger whose calls can fail at every await.
NextLedgerErrors ==
    \/ Tick
    \/ \E t \in {x \in StartTimeStrings : x.value = 1},
          d \in {x \in DurationStrings :
                    x.value = MaxReservationHours * TicksPerHour} :
            ReserveStationBegin("p1", "W1", 1, t, d)
    \/ ReserveStationCheck("p1")
    \/ ReserveStationWrite("p1")
    \/ StartSession({"p1"}, {"W1"})
    \/ EndSession({"p1"}, {"W1"})
    \/ \E i \in 1..MaxSessions,
          m \in {x \in AmountStrings : x.value = MaxAmount} :
            ProcessPaymentBegin("p1", "W1", i, m)
    \/ ProcessPaymentBalance("p1")
    \/ ProcessPaymentWrite("p1")
    \/ CancelReservation({"p1"}, {"W1"})
    \/ \E op \in MutatingOperations : LedgerFirstCallFails("p1", op)
    \/ LedgerCallFails("p1")
    \/ LedgerFailsAfterWrite("p1")

SpecLedgerErrors == InitReserve /\ [][NextLedgerErrors]_vars

\* The Station entity's calendar, called directly.
InitCalendar ==
    /\ now = 1
    /\ stations = [id \in StationIds |-> Station(id)]
    /\ sessions = <<>>
    /\ reservations = Calendar
    /\ users = [w \in Registered |-> User(InitBalance)]
    /\ procs = [p \in Procs |-> IdleProc]
    /\ ent = [station |-> StationEntity(1), user |-> User(InitBalance)]

NextCalendar ==
    \/ \E w \in Registered, t \in Periods : EntAddReservation(w, t[1], t[2])
    \/ \E w \in Registered, t \in Periods : EntRemoveReservation(w, t[1], t[2])

SpecCalendar == InitCalendar /\ [][NextCalendar]_vars

\* The Station and User entities' session and money mutators, called
\* directly.
NextStationUser ==
    \/ \E i \in 1..MaxSessions : EntStationStartSession(i)
    \/ EntStationEndSession
    \/ \E m \in PaymentAmounts : EntAddRevenue(m)
    \/ \E m \in PaymentAmounts : EntAddCharge(m)

SpecStationUser == InitCalendar /\ [][NextStationUser]_vars

\* Every mutating use case called by one wallet, one request at a time, on
\* an empty calendar.
NextRevenue ==
    \/ Tick
    \/ \E t \in {x \in StartTimeStrings : x.value = 1}, d \in {x \in DurationStrings : x.value = MaxReservationHours * TicksPerHour} : ReserveStationBegin("p1", "W1", 1, t, d)
    \/ ReserveStationCheck("p1")
    \/ ReserveStationWrite("p1")
    \/ StartSession({"p1"}, {"W1"})
    \/ EndSession({"p1"}, {"W1"})
    \/ ProcessPayment({"p1"}, {"W1"})
    \/ CancelReservation({"p1"}, {"W1"})

SpecRevenue == InitReserve /\ [][NextRevenue]_vars

\* The User entity's lists, called directly.
InitUserLists ==
    /\ now = 1
    /\ stations = [id \in StationIds |-> Station(id)]
    /\ sessions = <<>>
    /\ reservations = Calendar
    /\ users = [w \in Registered |-> User(InitBalance)]
    /\ procs = [p \in Procs |-> IdleProc]
    /\ ent = [user |-> UserEntity, raised |-> "none", call |-> <<>>]

NextUserLists ==
    \/ \E i \in SessionIdInputs : EntAddSession(i)
    \/ \E i \in SessionIdInputs : EntRemoveSession(i)
    \/ \E i \in ReservationIdInputs : EntUserAddReservation(i)
    \/ \E i \in ReservationIdInputs : EntUserRemoveReservation(i)

SpecUserLists == InitUserLists /\ [][NextUserLists]_vars

\* An ended session of up to MaxQuoteHours hours, and the two amount
\* functions applied to it.
InitQuote ==
    /\ now = 1
    /\ stations = [id \in StationIds |-> Station(id)]
    /\ sessions = <<>>
    /\ reservations = Calendar
    /\ users = [w \in Registered |-> User(InitBalance)]
    /\ procs = [p \in Procs |-> IdleProc]
    /\ \E t \in 1..MaxTime, d \in 0..(MaxQuoteHours * TicksPerHour) :
            ent = SessionEnd(SessionStart(Session(1, "W1", 1), t), t + d)

NextQuote ==
    \/ QuoteCharge
    \/ QuotePay

SpecQuote == InitQuote /\ [][NextQuote]_vars

\* Two interleaved requests that reserve the station.
NextReserveRace ==
    \/ Tick
    \/ \E p \in Procs, a \in Registered, t \in {x \in StartTimeStrings : x.parses}, d \in {x \in DurationStrings : x.value \in {TicksPerHour, TicksPerHour + 1}} : ReserveStationBegin(p, a, 1, t, d)
    \/ \E p \in Procs : ReserveStationCheck(p)
    \/ \E p \in Procs : ReserveStationWrite(p)

SpecReserveRace == InitReserve /\ [][NextReserveRace]_vars

\* The Station entity's calendar and its lookups, called directly.
NextCalendarLookup ==
    \/ NextCalendar
    \/ \E t \in 1..(MaxTime + 1) : EntIsReservedAt(t)
    \/ \E t \in 1..(MaxTime + 1) : EntGetReservationUser(t)

SpecCalendarLookup == InitCalendar /\ [][NextCalendarLookup]_vars

\* The amount functions applied to a session in any state its mutators reach.
NextAmount ==
    \/ NextEntity
    \/ EntPayAmount
    \/ EntChargeAmount

SpecAmount == Init /\ [][NextAmount]_vars

\* W1's sessions, with payments and cancellations of the preset
\* reservations by any registered wallet, one request at a time.
NextOwner ==
    \/ Tick
    \/ StartSession({"p1"}, {"W1"})
    \/ EndSession({"p1"}, Registered)
    \/ ProcessPayment({"p1"}, Registered)
    \/ CancelReservation({"p1"}, Registered)

SpecOwner == Init /\ [][NextOwner]_vars

\* The reservations of one wallet, one request at a time.
NextReserveOne ==
    \/ Tick
    \/ ReserveStation({"p1"}, {"W1"})

SpecReserveOne == InitReserve /\ [][NextReserveOne]_vars

(***************************************************************************)
(* Properties.                                                             *)
(***************************************************************************)

\* C1: in every state reached by start_session and end_session calls,
\* successful or failing, every station has
\* is_available = (current_session_id is None).
C1_AvailableIffNoCurrentSession ==
    \A id \in StationIds :
        stations[id].is_available = (stations[id].current_session_id = None)

\* A station that was released once and is claimed again.
C1_Witness ==
    \E id \in StationIds :
        /\ ~stations[id].is_available
        /\ stations[id].total_sessions >= 1

NoOverlap ==
    \A i, j \in 1..Len(reservations) :
        (/\ i < j
         /\ reservations[i].station_id = reservations[j].station_id
         /\ ~reservations[i].cancelled
         /\ ~reservations[j].cancelled)
        => ~(/\ reservations[i].start_time < reservations[j].end_time
             /\ reservations[j].start_time < reservations[i].end_time)

\* C2: no two non-cancelled reservations of a station overlap, and a
\* reserve_station request that finds its interval overlapping a stored
\* reservation is rejected with StationAlreadyReservedError and creates no
\* reservation.
C2_OverlapRejected ==
    [][/\ NoOverlap'
       /\ \A p \in Procs :
            (procs[p].pc = "reserve_check" /\ procs'[p].pc = "idle")
            => /\ procs'[p].result = "StationAlreadyReservedError"
               /\ reservations' = reservations]_vars

SessionTransitions ==
    {<<"PENDING", "ACTIVE">>, <<"ACTIVE", "COMPLETED">>,
     <<"COMPLETED", "PAID">>, <<"PENDING", "CANCELLED">>,
     <<"ACTIVE", "CANCELLED">>}

\* C3: the status of a session changes only along PENDING -> ACTIVE,
\* ACTIVE -> COMPLETED, COMPLETED -> PAID and PENDING|ACTIVE -> CANCELLED;
\* any other call of Session.start, end, pay or cancel leaves it unchanged.
C3_StatusTransitions ==
    [][\/ ent'.status = ent.status
       \/ <<ent.status, ent'.status>> \in SessionTransitions]_vars

\* The ACTIVE sessions the Ledger holds on a station.
ActiveOn(id) ==
    {i \in 1..Len(sessions) :
        sessions[i].station_id = id /\ sessions[i].status = "ACTIVE"}

\* C4: however the reads and writes of concurrent start_session requests
\* interleave, a station never has two ACTIVE sessions, and a request that
\* reaches its Ledger write succeeds exactly when the station is still
\* available at that moment: the first writer wins and creates one session,
\* every later writer gets the Ledger's conflict error and changes nothing.
C4_OneStartWins ==
    [][/\ \A id \in StationIds : Cardinality(ActiveOn(id)') <= 1
       /\ \A p \in Procs :
            (procs[p].pc = "start_write" /\ procs'[p].pc = "idle")
                => IF stations[procs[p].target].is_available
                   THEN /\ procs'[p].result = "ok"
                        /\ Len(sessions') = Len(sessions) + 1
                        /\ ~stations'[procs[p].target].is_available
                   ELSE /\ procs'[p].result = "ResourceConflictError"
                        /\ UNCHANGED ledger]_vars

\* Two requests raced for the station: one started a session, the other
\* passed the availability check and lost at the Ledger write.
C4_Witness ==
    \E p, q \in Procs :
        /\ p # q
        /\ procs[p].op = "start_session" /\ procs[p].result = "ok"
        /\ procs[q].op = "start_session"
        /\ procs[q].result = "ResourceConflictError"

\* C5: process_payment with valid data by the owner of a session that is
\* already PAID ends at once with ValidationError (already paid) and the
\* Ledger untouched; no request on a PAID session gets as far as pay_session,
\* and a PAID session's fields never change again.
C5_SecondPaymentRejected ==
    [][/\ \A i \in 1..Len(sessions) :
            IsPaid(sessions[i]) => sessions'[i] = sessions[i]
       /\ \A p \in Procs :
            procs'[p].pc \in {"pay_balance", "pay_write"}
                => ~IsPaid(sessions'[procs'[p].target])
       /\ \A p \in Procs :
            (procs[p].pc = "idle" /\ procs'[p].op = "process_payment")
                => \A i \in 1..Len(sessions) :
                    IsPaid(sessions[i])
                        => \A m \in AmountStrings :
                            (/\ m.parses
                             /\ ProcessPaymentBegin(
                                    p, sessions[i].user_address, i, m))
                                => /\ procs'[p].pc = "idle"
                                   /\ procs'[p].result
                                        = "ValidationError(SESSION_PAYMENT_ALREADY_PAID)"
                                   /\ UNCHANGED ledger]_vars

\* A second payment of a PAID session was refused.
C5_Witness ==
    /\ procs["p1"].op = "process_payment"
    /\ procs["p1"].result = "ValidationError(SESSION_PAYMENT_ALREADY_PAID)"
    /\ \E i \in 1..Len(sessions) : IsPaid(sessions[i])

\* The PAID sessions of a wallet, and the sum of their payment amounts.
PaidBy(w) ==
    {i \in 1..Len(sessions) :
        sessions[i].user_address = w /\ IsPaid(sessions[i])}

PaidTotal(w) ==
    LET acc[i \in 0..Len(sessions)] ==
            IF i = 0 THEN 0
            ELSE acc[i - 1] + (IF i \in PaidBy(w)
                               THEN sessions[i].payment_amount ELSE 0)
    IN acc[Len(sessions)]

\* C6: however process_payment requests on the same session interleave, the
\* Ledger applies pay_session at most once per session: a write on a session
\* that is no longer COMPLETED is refused and changes nothing, and every
\* wallet has been debited, and charged, exactly the payment_amount of each
\* of its PAID sessions, once.
C6_NoDoubleCharge ==
    [][/\ \A w \in Registered :
            /\ users'[w].balance = InitBalance - PaidTotal(w)'
            /\ users'[w].total_charges = PaidTotal(w)'
            /\ users'[w].total_sessions = Cardinality(PaidBy(w)')
       /\ \A p \in Procs :
            (procs[p].pc = "pay_write" /\ procs'[p].pc = "idle")
                => IF sessions[procs[p].target].status = "COMPLETED"
                   THEN procs'[p].result \in {"ok", "BlockchainError"}
                   ELSE /\ procs'[p].result = "ResourceConflictError"
                        /\ UNCHANGED ledger]_vars

\* Two payments of one session raced: one was applied, the other passed
\* every check of the use case and was refused by the Ledger.
C6_Witness ==
    \E p, q \in Procs :
        /\ p # q
        /\ procs[p].op = "process_payment" /\ procs[p].result = "ok"
        /\ procs[q].op = "process_payment"
        /\ procs[q].result = "ResourceConflictError"

\* C7: end_session by the owner of a session that has already been ended
\* ends at once with SessionNotActiveError and the Ledger untouched (status,
\* end_time and the station's total_sessions as they were); no request on an
\* ended session gets as far as the Ledger's end_session.
C7_SecondEndRejected ==
    [][/\ \A p \in Procs :
            procs'[p].pc = "end_write"
                => sessions'[procs'[p].target].end_time = None
       /\ \A p \in Procs, i \in 1..Len(sessions) :
            (/\ procs'[p].op = "end_session"
             /\ procs[p].pc = "idle"
             /\ sessions[i].end_time # None
             /\ EndSessionBegin(p, sessions[i].user_address, i))
                => /\ procs'[p].pc = "idle"
                   /\ procs'[p].result = "SessionNotActiveError"
                   /\ UNCHANGED ledger]_vars

\* A second end_session of an ended session was refused.
C7_Witness ==
    /\ procs["p1"].op = "end_session"
    /\ procs["p1"].result = "SessionNotActiveError"
    /\ \E i \in 1..Len(sessions) :
        sessions[i].end_time # None /\ stations[1].total_sessions >= 1

\* The whole hours billed for a duration in ticks: the least number of
\* hours that covers it.
BilledHours(ticks) ==
    CHOOSE h \in 0..ticks :
        /\ h * TicksPerHour >= ticks
        /\ \A k \in 0..ticks : k * TicksPerHour >= ticks => h <= k

\* C8: for every ended session both use cases compute the required amount,
\* and it is the base rate times the session's duration rounded up to whole
\* hours (an exact number of hours is not rounded up).
C8_RequiredAmount ==
    \A i \in 1..Len(sessions) :
        sessions[i].end_time # None
            => /\ ~CalculateRaises(sessions[i])
               /\ PayCalculatePaymentAmount(sessions[i])
                    = BaseRate * BilledHours(GetDuration(sessions[i]))
               /\ ChargeCalculatePaymentAmount(sessions[i])
                    = BaseRate * BilledHours(GetDuration(sessions[i]))

\* C9: the Ledger write of a successful process_payment(wallet, session,
\* amount) leaves the session PAID with payment_amount = amount and
\* payment_time set, the session's station with total_revenue increased by
\* exactly amount, and the payer's total_charges on the Ledger increased by
\* exactly amount.
C9_PaymentEffects ==
    [][\A p \in Procs :
        (/\ procs[p].pc = "pay_write"
         /\ procs'[p].pc = "idle"
         /\ procs'[p].result = "ok")
            => LET i == procs[p].target
                   amount == procs[p].amount
                   w == procs[p].user_address
                   st == sessions[i].station_id
               IN  /\ sessions'[i].status = "PAID"
                   /\ sessions'[i].payment_amount = amount
                   /\ sessions'[i].payment_time = now
                   /\ sessions'[i].payment_time # None
                   /\ stations'[st].total_revenue
                        = stations[st].total_revenue + amount
                   /\ users'[w].total_charges
                        = users[w].total_charges + amount]_vars

\* A payment of a positive amount went through.
C9_Witness ==
    /\ procs["p1"].op = "process_payment"
    /\ procs["p1"].result = "ok"
    /\ procs["p1"].amount > 0
    /\ IsPaid(sessions[procs["p1"].target])

HeldBy(w, s, t) ==
    \E i \in 1..Len(reservations) :
        /\ reservations[i].user_address = w
        /\ reservations[i].station_id = s
        /\ ~reservations[i].cancelled
        /\ reservations[i].start_time <= t
        /\ t <= reservations[i].end_time

PeriodErrors ==
    {"ValidationError(STATION_RESERVATION_TOO_SHORT)",
     "ValidationError(STATION_RESERVATION_TOO_LONG)",
     "ValidationError(VALIDATION_INVALID_START_TIME)"}

\* C14: reserve_station by a registered wallet with a timestamp and a number
\* of hours rejects a duration below 1 hour as too short, one above 24
\* hours as too long, and otherwise a start_time before now as being in the
\* past, each with the Ledger untouched; a duration from exactly 1 to
\* exactly 24 hours with start_time >= now gets none of the three
\* rejections, and the request goes on with end_time = start_time +
\* duration. Every reservation the Ledger creates has the request's
\* start_time and end_time, between 1 and 24 hours apart.
C14_DurationBounds ==
    [][/\ \A p \in Procs :
            (procs[p].pc = "idle" /\ procs'[p].op = "reserve_station")
                => \A a \in Registered, s \in StationInputs,
                      t \in StartTimeStrings, d \in DurationStrings :
                    (/\ t.parses /\ d.parses /\ ~d.nan
                     /\ ReserveStationBegin(p, a, s, t, d))
                        => IF d.value < TicksPerHour
                           THEN /\ procs'[p].result
                                    = "ValidationError(STATION_RESERVATION_TOO_SHORT)"
                                /\ UNCHANGED ledger
                           ELSE IF d.value > 24 * TicksPerHour
                           THEN /\ procs'[p].result
                                    = "ValidationError(STATION_RESERVATION_TOO_LONG)"
                                /\ UNCHANGED ledger
                           ELSE IF t.value < now
                           THEN /\ procs'[p].result
                                    = "ValidationError(VALIDATION_INVALID_START_TIME)"
                                /\ UNCHANGED ledger
                           ELSE /\ procs'[p].result \notin PeriodErrors
                                /\ procs'[p].pc = "reserve_check"
                                    => /\ procs'[p].start_time = t.value
                                       /\ procs'[p].end_time
                                            = t.value + d.value
       /\ Len(reservations') # Len(reservations)
            => \E p \in Procs :
                LET r == reservations'[Len(reservations')]
                IN  /\ procs[p].pc = "reserve_write"
                    /\ reservations' = Append(reservations, r)
                    /\ r.start_time = procs[p].start_time
                    /\ r.end_time = procs[p].end_time
                    /\ r.end_time - r.start_time >= TicksPerHour
                    /\ r.end_time - r.start_time <= 24 * TicksPerHour]_vars

\* A reservation of exactly 24 hours is on the Ledger, and a longer one was
\* refused.
C14_Witness ==
    /\ procs["p1"].op = "reserve_station"
    /\ procs["p1"].result = "ValidationError(STATION_RESERVATION_TOO_LONG)"
    /\ \E i \in 1..Len(reservations) :
        reservations[i].end_time - reservations[i].start_time
            = 24 * TicksPerHour

SessionChecks(a, i, m, zero) ==
    IF sessions[i].user_address # a
    THEN "ValidationError(SESSION_NOT_OWNED)"
    ELSE IF sessions[i].status = "ACTIVE"
    THEN "SessionNotPaidError"
    ELSE IF sessions[i].status = "PAID"
    THEN "ValidationError(SESSION_PAYMENT_ALREADY_PAID)"
    ELSE IF sessions[i].end_time = sessions[i].start_time
    THEN zero
    ELSE IF m.value < BaseRate * BilledHours(GetDuration(sessions[i]))
    THEN "InsufficientPaymentError"
    ELSE "balance"

\* The order as stated: wallet well-formed, amount parses, session exists,
\* then the checks on the session (no amount is below the 0 a session of
\* zero duration requires).
OutcomeStated(a, i, m) ==
    IF a \notin WellFormed
    THEN "ValidationError(VALIDATION_INVALID_WALLET_ADDRESS)"
    ELSE IF ~m.parses
    THEN "ValidationError(VALIDATION_INVALID_AMOUNT)"
    ELSE IF i \notin 1..Len(sessions)
    THEN "SessionNotFoundError"
    ELSE SessionChecks(a, i, m, "balance")

\* The order with the caller's registration checked before the session is
\* looked up, and the amount computation refusing a zero duration.
OutcomeWithUser(a, i, m) ==
    IF a \notin WellFormed
    THEN "ValidationError(VALIDATION_INVALID_WALLET_ADDRESS)"
    ELSE IF ~m.parses
    THEN "ValidationError(VALIDATION_INVALID_AMOUNT)"
    ELSE IF a \notin Registered
    THEN "UserNotFoundError"
    ELSE IF i \notin 1..Len(sessions)
    THEN "SessionNotFoundError"
    ELSE SessionChecks(a, i, m,
                       "ValidationError(VALIDATION_ACTIVE_SESSION_PAYMENT)")

\* Every process_payment request ends, or goes on to read the balance, as
\* Outcome(a, i, m) says; the balance is read only when it says "balance",
\* and a balance below the amount ends the request there.
FollowsOrder(Outcome(_, _, _)) ==
    \A p \in Procs :
        /\ (procs[p].pc = "idle" /\ procs'[p].op = "process_payment")
            => \A a \in Addresses, i \in 1..MaxSessions, m \in AmountStrings :
                ProcessPaymentBegin(p, a, i, m)
                    => IF Outcome(a, i, m) = "balance"
                       THEN procs'[p].pc = "pay_balance"
                       ELSE /\ procs'[p].pc = "idle"
                            /\ procs'[p].result = Outcome(a, i, m)
                            /\ UNCHANGED ledger
        /\ (procs[p].pc = "pay_balance" /\ procs'[p] # procs[p])
            => IF users[procs[p].user_address].balance < procs[p].amount
               THEN /\ procs'[p].pc = "idle"
                    /\ procs'[p].result = "InsufficientPaymentError"
                    /\ UNCHANGED ledger
               ELSE procs'[p].pc = "pay_write"

C17_NegativeAmountRejected ==
    [][/\ \A m \in PaymentAmounts :
            (m < 0 /\ EntPay(m)) => ent' = ent
       /\ \A p \in Procs :
            (procs[p].pc = "idle" /\ procs'[p].op = "process_payment")
            => \A a \in WellFormed, i \in 1..MaxSessions, m \in AmountStrings :
                ((~m.parses \/ m.value < 0) /\ ProcessPaymentBegin(p, a, i, m))
                    => /\ procs'[p].pc = "idle"
                       /\ procs'[p].result =
                            "ValidationError(VALIDATION_INVALID_AMOUNT)"
                       /\ UNCHANGED ledger]_vars

\* C18: whatever sequence of Session.start, end, pay and cancel is applied,
\* a session whose status is PAID has its payment_amount and its
\* payment_time set.
C18_PaidHasPayment ==
    ent.status = "PAID"
        => ent.payment_amount # NoAmount /\ ent.payment_time # None

\* A session paid after it was started and ended.
C18_Witness ==
    /\ ent.status = "PAID"
    /\ ent.start_time # None
    /\ ent.end_time # None

\* C19: whatever sequence of Session.start, end, pay and cancel is applied,
\* a session with an end_time has a start_time that is not later, and
\* Session.end on a session that was never started changes neither its
\* end_time nor its status.
C19_EndAfterStart ==
    [][/\ ent'.end_time # None
            => ent'.start_time # None /\ ent'.end_time >= ent'.start_time
       /\ (ent.start_time = None /\ EntEnd)
            => ent'.end_time = ent.end_time /\ ent'.status = ent.status]_vars

\* C20: computing the required payment amount of a session that has no
\* end_time raises ValidationError, in the payment and in the charging use
\* case alike; no amount is returned for such a session.
C20_UnfinishedNoAmount ==
    [][(ent.end_time = None /\ (EntPayAmount \/ EntChargeAmount))
        => /\ procs'["p1"].result
                = "ValidationError(VALIDATION_ACTIVE_SESSION_PAYMENT)"
           /\ procs'["p1"].amount = IdleProc.amount]_vars

\* The amount of an ACTIVE session was asked for and refused.
C20_Witness ==
    /\ procs["p1"].op \in {"pay_amount", "charge_amount"}
    /\ procs["p1"].result = "ValidationError(VALIDATION_ACTIVE_SESSION_PAYMENT)"
    /\ ent.status = "ACTIVE"
    /\ ent.start_time # None
    /\ ent.end_time = None

\* C21: get_reservation_details reports exactly one status, derived from
\* the clock, the period and the cancelled flag: cancelled if the flag is
\* set; otherwise expired if now > end_time; otherwise active if
\* start_time <= now <= end_time; otherwise pending.
C21_DerivedStatus ==
    [][\A p \in Procs :
        (/\ procs'[p] # procs[p]
         /\ procs'[p].op = "get_reservation_details"
         /\ procs'[p].result = "ok")
        => LET r == reservations[procs'[p].target]
               s == procs'[p].view[1].status
           IN  /\ Len(procs'[p].view) = 1
               /\ s \in {"cancelled", "expired", "active", "pending"}
               /\ s = "cancelled" <=> r.cancelled
               /\ s = "expired" <=> ~r.cancelled /\ now > r.end_time
               /\ s = "active" <=> /\ ~r.cancelled
                                   /\ r.start_time <= now
                                   /\ now <= r.end_time
               /\ s = "pending" <=> ~r.cancelled /\ now < r.start_time]_vars

\* A reservation read at the instant it ends is still active.
C21_Witness ==
    /\ procs["p1"].op = "get_reservation_details"
    /\ procs["p1"].result = "ok"
    /\ procs["p1"].view[1].status = "active"
    /\ reservations[procs["p1"].target].end_time = now

\* The status of reservation i as the derivation rule states it.
Derived(i) ==
    CASE reservations[i].cancelled -> "cancelled"
      [] ~reservations[i].cancelled /\ now > reservations[i].end_time
            -> "expired"
      [] /\ ~reservations[i].cancelled
         /\ reservations[i].start_time <= now
         /\ now <= reservations[i].end_time -> "active"
      [] OTHER -> "pending"

\* C22: get_user_reservations applies the derivation of
\* get_reservation_details: without a filter it returns every reservation
\* of the user labelled with its derived status, and with a filter S it
\* returns exactly the user's reservations whose derived status is S.
C22_FilterByDerivedStatus ==
    [][\A p \in Procs, a \in Registered, s \in StatusFilters \ {"other"} :
        GetUserReservations(p, a, s)
        => /\ procs'[p].result = "ok"
           /\ {procs'[p].view[k] : k \in 1..Len(procs'[p].view)}
                = {[reservation_id |-> i, status |-> Derived(i)] :
                    i \in {j \in 1..Len(reservations) :
                            /\ reservations[j].user_address = a
                            /\ s = "" \/ Derived(j) = s}}
           /\ \A k, l \in 1..Len(procs'[p].view) :
                procs'[p].view[k] = procs'[p].view[l] => k = l]_vars

\* C23: cancel_reservation by the owner goes on to the Ledger cancel, which
\* leaves the reservation cancelled, when end_time >= now (end_time = now
\* included); when end_time < now it raises ReservationExpiredError, issues
\* no Ledger cancel and leaves the cancelled flag as it was.
C23_ExpiredNotCancellable ==
    [][\A p \in Procs :
        /\ (procs[p].pc = "idle" /\ procs'[p].op = "cancel_reservation")
            => \A i \in 1..Len(reservations) :
                CancelReservationBegin(p, reservations[i].user_address, i)
                => IF reservations[i].end_time < now
                   THEN /\ procs'[p].pc = "idle"
                        /\ procs'[p].result = "ReservationExpiredError"
                        /\ UNCHANGED ledger
                   ELSE procs'[p].pc = "cancel_write"
        /\ (procs[p].pc = "cancel_write" /\ procs'[p].pc = "idle")
            => reservations'[procs[p].target].cancelled]_vars

\* C24: get_session_details reports 'active' for an ACTIVE session, 'ended'
\* for a session that is completed and not paid, and 'paid' for every PAID
\* session.
C24_SessionStatusView ==
    [][\A p \in Procs :
        (/\ procs'[p] # procs[p]
         /\ procs'[p].op = "get_session_details"
         /\ procs'[p].result = "ok")
        => LET session == sessions[procs'[p].target]
               status == procs'[p].view[1].status
           IN  /\ session.status = "ACTIVE" => status = "active"
               /\ session.status = "COMPLETED" => status = "ended"
               /\ session.status = "PAID" => status = "paid"]_vars

ReadOperations ==
    {"get_session_details", "get_user_sessions", "get_reservation_details",
     "get_user_reservations", "get_payment_details"}

\* C26: get_session_details, get_user_sessions, get_reservation_details,
\* get_user_reservations and get_payment_details issue no Ledger write: the
\* stored sessions, stations, reservations and users are the same after the
\* call as before it, whether it succeeds or fails.
C26_ReadsChangeNothing ==
    [][\A p \in Procs :
        (procs'[p] # procs[p] /\ procs'[p].op \in ReadOperations)
        => UNCHANGED ledger]_vars

\* The payment details of a paid session are read after a reservation was
\* cancelled: there is stored state of every kind a read could disturb.
C26_Witness ==
    /\ procs["p1"].op = "get_payment_details"
    /\ procs["p1"].result = "ok"
    /\ IsPaid(sessions[procs["p1"].target])
    /\ \E i \in 1..Len(reservations) : reservations[i].cancelled

\* C27: a Ledger-layer error raised by a Ledger call of start_session,
\* end_session, reserve_station, cancel_reservation or process_payment ends
\* the invocation with that error: the call is not retried and no further
\* mutating call follows; every step taken from the await of a mutating
\* call ends the invocation, so that each invocation issues at most one,
\* and the Ledger changes in no other step.
C27_LedgerErrorsPropagate ==
    [][\A p \in Procs :
        /\ (\/ LedgerCallFails(p)
            \/ LedgerFailsAfterWrite(p)
            \/ \E op \in MutatingOperations : LedgerFirstCallFails(p, op))
            => /\ procs'[p].pc = "idle"
               /\ procs'[p].result = "BlockchainError"
               /\ procs'[p].op \in MutatingOperations
        /\ (/\ procs[p].pc \in WriteAwaits
            /\ ledger' # ledger \/ procs'[p] # procs[p])
            => procs'[p].pc = "idle"
        /\ ledger' # ledger
            => \E q \in Procs : procs[q].pc \in WriteAwaits]_vars

\* A payment invocation ended with the Ledger's error, on a Ledger that
\* holds a paid session.
C27_Witness ==
    /\ procs["p1"].op = "process_payment"
    /\ procs["p1"].result = "BlockchainError"
    /\ Len(sessions) = 1
    /\ IsPaid(sessions[1])

\* The intervals k and l of the station's calendar overlap in time.
Overlapping(calendar, k, l) ==
    /\ calendar[k].start_time < calendar[l].end_time
    /\ calendar[l].start_time < calendar[k].end_time

\* C28: after any sequence of Station.add_reservation and
\* remove_reservation the calendar holds no two intervals that overlap, and
\* add_reservation of an interval that duplicates or overlaps a stored one
\* leaves the calendar unchanged.
C28_CalendarNoOverlap ==
    [][/\ \A k, l \in 1..Len(ent'.station.reservations) :
            k # l => ~Overlapping(ent'.station.reservations, k, l)
       /\ \A w \in Registered, t \in Periods :
            (/\ \E k \in 1..Len(ent.station.reservations) :
                    /\ ent.station.reservations[k].start_time < t[2]
                    /\ t[1] < ent.station.reservations[k].end_time
             /\ EntAddReservation(w, t[1], t[2]))
            => ent' = ent]_vars

\* C29: Station.start_session on a station that has a current session
\* keeps the existing current_session_id, and Station.end_session on a
\* station with no current session changes neither total_sessions nor the
\* availability.
C29_BusyAndFreeRejected ==
    [][/\ \A i \in 1..MaxSessions :
            (ent.station.current_session_id # None
                /\ EntStationStartSession(i))
            => ent'.station.current_session_id
                    = ent.station.current_session_id
       /\ (ent.station.current_session_id = None /\ EntStationEndSession)
            => /\ ent'.station.total_sessions = ent.station.total_sessions
               /\ ent'.station.is_available
                    = ent.station.is_available]_vars

\* C30: User.total_charges and Station.total_revenue never decrease, on the
\* entities and in the Ledger; add_charge and add_revenue with a negative
\* amount leave the total unchanged.
C30_TotalsNeverDecrease ==
    [][/\ ent'.station.total_revenue >= ent.station.total_revenue
       /\ ent'.user.total_charges >= ent.user.total_charges
       /\ \A id \in StationIds :
            stations'[id].total_revenue >= stations[id].total_revenue
       /\ \A w \in Registered :
            users'[w].total_charges >= users[w].total_charges]_vars

\* C31: a station's total_revenue changes only in the step in which a
\* process_payment succeeds for a session of that station; start_session,
\* end_session, reserve_station, cancel_reservation and every rejected
\* process_payment leave it unchanged.
C31_RevenueOnlyByPayment ==
    [][\A id \in StationIds :
        stations'[id].total_revenue # stations[id].total_revenue
        => \E p \in Procs :
            /\ procs[p].pc = "pay_write"
            /\ procs'[p].op = "process_payment"
            /\ procs'[p].result = "ok"
            /\ sessions[procs[p].target].station_id = id
            /\ stations'[id].total_revenue
                    = stations[id].total_revenue + procs[p].amount]_vars

\* Revenue was collected, and a later process_payment was rejected.
C31_Witness ==
    /\ stations[1].total_revenue > 0
    /\ procs["p1"].op = "process_payment"
    /\ procs["p1"].pc = "idle"
    /\ procs["p1"].result \notin {"ok", "none"}

\* Each element of the list occurs in it once.
Unique(list) ==
    \A k, l \in 1..Len(list) : list[k] = list[l] => k = l

\* C32: after any sequence of User.add_session, remove_session,
\* add_reservation and remove_reservation calls each id occurs at most once
\* in active_sessions and in active_reservations; adding an id that is
\* present and removing an id that is absent raise ValidationError.
C32_ActiveIdsUnique ==
    [][/\ Unique(ent'.user.active_sessions)
       /\ Unique(ent'.user.active_reservations)
       /\ \A i \in SessionIdInputs :
            /\ (i \in Range(ent.user.active_sessions) /\ EntAddSession(i))
                    => ent'.raised = "ValidationError"
            /\ (i \notin Range(ent.user.active_sessions) /\ EntRemoveSession(i))
                    => ent'.raised = "ValidationError"
       /\ \A i \in ReservationIdInputs :
            /\ (i \in Range(ent.user.active_reservations)
                    /\ EntUserAddReservation(i))
                    => ent'.raised = "ValidationError"
            /\ (i \notin Range(ent.user.active_reservations)
                    /\ EntUserRemoveReservation(i))
                    => ent'.raised = "ValidationError"]_vars

\* C33: for every ended session the required_payment reported by
\* end_session equals the required amount enforced by process_payment, and
\* the reported amount is not less than the enforced one.
C33_QuoteEqualsRequired ==
    (procs["p1"].result = "ok" /\ procs["p2"].result = "ok")
        => /\ procs["p1"].figures = procs["p2"].figures
           /\ ~AmountLess(procs["p1"].figures, procs["p2"].figures)

\* C34: when two reserve_station requests for overlapping intervals on one
\* station have both passed their availability and overlap reads, at most
\* one of them creates a reservation: a request at its Ledger write whose
\* interval overlaps a stored reservation ends with ResourceConflictError
\* and creates nothing, and no two stored reservations of a station
\* overlap.
C34_OneReservationWins ==
    [][/\ NoOverlap'
       /\ \A p \in Procs :
            (procs[p].pc = "reserve_write" /\ procs'[p].pc = "idle")
                => IF IsStationReservedInPeriod(procs[p].target,
                            procs[p].start_time, procs[p].end_time)
                   THEN /\ procs'[p].result = "ResourceConflictError"
                        /\ UNCHANGED ledger
                   ELSE /\ procs'[p].result = "ok"
                        /\ Len(reservations') = Len(reservations) + 1]_vars

\* Two requests raced for the period: one reserved it, the other passed the
\* overlap read and lost at the Ledger write.
C34_Witness ==
    \E p, q \in Procs :
        /\ p # q
        /\ procs[p].op = "reserve_station" /\ procs[p].result = "ok"
        /\ procs[q].op = "reserve_station"
        /\ procs[q].result = "ResourceConflictError"
        /\ Len(reservations) = 1

\* C35: if end_session ends with an error, the Ledger's sessions and
\* stations are as they were before the call: no step of an end_session
\* request both applies the Ledger end_session write and reports a failure.
C35_FailedEndWritesNothing ==
    [][\A p \in Procs :
        (/\ procs[p].pc \in {"idle", "end_write"}
         /\ procs'[p] # procs[p]
         /\ procs'[p].op = "end_session"
         /\ procs'[p].pc = "idle"
         /\ procs'[p].result # "ok")
        => UNCHANGED <<sessions, stations>>]_vars

\* C36: every COMPLETED session can be paid, a session of zero duration
\* included: a process_payment by the owner with amount >= required amount
\* passes the checks of the use case, with a sufficient balance it reaches
\* the Ledger write, and the write leaves the session PAID.
C36_CompletedIsPayable ==
    [][/\ \A i \in 1..Len(sessions) :
            sessions[i].status = "COMPLETED"
            => \A m \in AmountStrings :
                (/\ m.parses
                 /\ m.value >= BaseRate * CeilHours(GetDuration(sessions[i]))
                 /\ ProcessPaymentBegin("p1", sessions[i].user_address, i, m))
                => procs'["p1"].pc = "pay_balance"
       /\ (/\ procs["p1"].pc = "pay_balance"
           /\ procs'["p1"] # procs["p1"]
           /\ GetEthBalance(procs["p1"].user_address) >= procs["p1"].amount)
            => procs'["p1"].pc = "pay_write"
       /\ (/\ procs["p1"].pc = "pay_write"
           /\ procs'["p1"] # procs["p1"]
           /\ sessions[procs["p1"].target].status = "COMPLETED"
           /\ GetEthBalance(procs["p1"].user_address) >= procs["p1"].amount)
            => /\ procs'["p1"].result = "ok"
               /\ sessions'[procs["p1"].target].status = "PAID"]_vars

\* C37: get_user_sessions with active_only = false, when the Ledger
\* resolves every id, returns every session the wallet owns: none is
\* missing because its id exceeds the wallet's own total_sessions.
C37_AllOwnedSessionsListed ==
    [][\A p \in Procs :
        (/\ procs'[p] # procs[p]
         /\ procs'[p].op = "get_user_sessions"
         /\ procs'[p].result = "ok"
         /\ procs'[p].args = <<FALSE, {}>>)
        => \A i \in 1..Len(sessions) :
            sessions[i].user_address = procs'[p].user_address
            => \E k \in 1..Len(procs'[p].view) :
                    procs'[p].view[k].session_id = i]_vars

\* The holders of the stored reservations that cover the time.
HoldersAt(time) ==
    {ent.station.reservations[k].user_address :
        k \in {l \in 1..Len(ent.station.reservations) :
                /\ ent.station.reservations[l].start_time <= time
                /\ time <= ent.station.reservations[l].end_time}}

\* C38: Station.is_reserved_at(t) is true exactly when some stored
\* reservation has start_time <= t <= end_time, and get_reservation_user(t)
\* returns the holder of such a reservation (None when there is none), also
\* when the reservation starts on one date and t falls on the next.
C38_LookupFindsCovering ==
    [][(procs'["p1"] # procs["p1"])
        => LET time == procs'["p1"].args[1]
           IN  /\ procs'["p1"].op = "is_reserved_at"
                    => (procs'["p1"].result = "True" <=> HoldersAt(time) # {})
               /\ procs'["p1"].op = "get_reservation_user"
                    => IF HoldersAt(time) = {}
                       THEN procs'["p1"].result = "None"
                       ELSE procs'["p1"].result \in HoldersAt(time)]_vars

====
